---- MODULE Spec2Model ----
(***************************************************************************)
(* The issue-report workflow of CampusCare: the ReportIssue page in its    *)
(* three versions (the four-step wizard with a client-side radius check,   *)
(* the chat page with the /api/check-campus lookup, the chat page with no  *)
(* location check), the validate-image edge function and the check-campus  *)
(* handler, with the storage, database, points and e-mail collaborators    *)
(* reduced to their observable outcomes.                                   *)
(*                                                                         *)
(* Free text is a sequence of one-character strings so that trim() and     *)
(* template literals are computed rather than assumed.                     *)
(***************************************************************************)
EXTENDS Integers, Sequences, FiniteSets, TLC

\* ------------------------------------------------------------------ bounds
MaxSubmits == 2       \* presses of "Submit Issue" explored in one behaviour
MaxValidations == 2   \* presses of "Continue" that reach the oracle
MaxAttempts == 2      \* submitIssue invocations that may be in flight at once
MaxCalls == 3         \* calls of increment_points by concurrent sessions

\* ------------------------------------------------------- program constants
Null == "null"

\* the three versions of the page
Variants == {"part_003", "part_004", "ReportIssue"}

\* useAuth(): the routes are wrapped in ProtectedRoute, a user is signed in
user == "student"

\* files the user can pick in the file dialog
Files == {"f1", "f2"}

\* values the user can type into a text input
FieldValues == { <<>>, <<" ">>, <<" ", "a">> }

\* A behaviour varies one part of the environment and keeps the other parts
\* at one value: the files picked (and the FileReader's result), the category,
\* the typed text (and the Enter key), the urgency, the answer of the
\* validate-image function, the outcomes of the position read and of the
\* storage, database and e-mail calls.
Scenarios == {"files", "categories", "text", "urgency", "oracle", "faults"}

\* type IssueCategory of the wizard and of the chat pages
WizardCategories == {"air", "water", "waste"}
ChatCategories == {"water_leak", "cleanliness", "furniture_damage", "electrical_issue", "others"}

categorySubcategories ==
  [c \in WizardCategories |->
     CASE c = "air"   -> {"Emission", "Odour"}
       [] c = "water" -> {"Leak", "Stagnation", "Quality", "Drainage"}
       [] c = "waste" -> {"Spillage"}]

categoryToDbEnum ==
  [c \in WizardCategories |->
     CASE c = "air"   -> "air_emission"
       [] c = "water" -> "water"
       [] c = "waste" -> "others"]

\* urgencyOptions: value |-> severity
urgencyOptions ==
  [u \in {"can_wait", "needs_attention", "emergency"} |->
     CASE u = "can_wait"        -> "low"
       [] u = "needs_attention" -> "medium"
       [] u = "emergency"       -> "high"]

Severities == {"low", "medium", "high"}

\* the label of each entry of urgencyOptions
urgencyLabels ==
  [u \in {"can_wait", "needs_attention", "emergency"} |->
     CASE u = "can_wait"        -> "Can Wait"
       [] u = "needs_attention" -> "Needs Attention"
       [] u = "emergency"       -> "Emergency"]

\* severityLabels of the PDF export
severityLabels ==
  [v \in Severities |->
     CASE v = "low"    -> "Can Wait"
       [] v = "medium" -> "Needs Attention"
       [] v = "high"   -> "Emergency"]

\* ----------------------------------------------------------------- strings
\* String.prototype.trim()
RECURSIVE TrimLeft(_)
TrimLeft(s) == IF s # <<>> /\ Head(s) = " " THEN TrimLeft(Tail(s)) ELSE s

RECURSIVE TrimRight(_)
TrimRight(s) ==
  IF s # <<>> /\ s[Len(s)] = " " THEN TrimRight(SubSeq(s, 1, Len(s) - 1)) ELSE s

Trim(s) == TrimRight(TrimLeft(s))

\* `${buildingName}, Floor ${floorNumber}, ${roomArea}`
FullLocation(b, f, r) ==
  b \o <<",", " ", "F", "l", "o", "o", "r", " ">> \o f \o <<",", " ">> \o r

\* ------------------------------------------------------------------- state
VARIABLES
  variant,              \* which version of the page is mounted
  scenario,             \* which part of the user's input varies
  mounted,              \* the page is rendered: the user has not left /report
  rpc,                  \* calls of increment_points by other sessions, call ->
                        \*   [st: how far it is, delta: points_to_add, seen: the
                        \*   points its UPDATE read]
  step,                 \* useState step
  imageFile,            \* useState imageFile
  imagePreview,         \* useState imagePreview (the data URL of a file)
  readers,              \* FileReaders whose onloadend has not fired yet
  category,             \* useState category
  selectedSubcategory,  \* useState selectedSubcategory (wizard)
  severity,             \* useState severity (chat pages)
  validationResult,     \* useState validationResult
  buildingName, floorNumber, roomArea,   \* wizard location fields
  currentLocationField, \* wizard focus
  selectedUrgency,      \* wizard urgency
  userInput, location, urgency,          \* chat pages
  submitting, checkingLocation,          \* useState flags
  valPc,                \* validateImage: "idle" or "waiting" on functions.invoke
  valSent,              \* the imageBase64 of the pending invoke
  sub,                  \* submitIssue invocations, slot -> [pc: the await it is at,
                        \*   gate: what the campus check returned, geo, coord: what
                        \*   getCurrentPosition called back with, lookup: how the
                        \*   fetch of check-campus ended, eff: what it has written,
                        \*   fails: the calls that failed, path: its fileName]
  storage,              \* bucket issue-images: files uploaded
  issues,               \* table issues: rows inserted
  points,               \* profiles.points of the user
  notifications,        \* e-mails sent by send-issue-notification
  nSubmits,             \* presses of Submit so far
  oracleCalls,          \* invocations of validate-image so far
  oracleOutcome,        \* how the last call of validate-image ended
  validSeen,            \* a verdict with a truthy isValid arrived for this draft
  insertFailed,         \* an insert of this draft failed
  resetFromInvalid,     \* resetForm has left the invalid step
  passInserted,         \* rows inserted since the draft was started
  validatedImage,       \* the imageBase64 of the last truthy verdict of this draft
  rlsIssues,            \* table issues as the row-level policies guard it
  rlsOp,                \* the last statement on it: who ran it and what it gave
  tickets,              \* table issues as the maintenance page reads and updates
                        \*   it, id -> [student_id, status, resolved_image_url]
  sess,                 \* the maintenance page open in each browser session
  awards,               \* id -> calls of increment_points(student_id, 50) made
                        \*   for that issue
  nUpdates,             \* presses of "Update Issue" so far
  httpReq,              \* the last request sent to a handler by any client
  httpResp              \* what the handler answered

rlsVars == <<rlsIssues, rlsOp>>
staffVars == <<tickets, sess, awards, nUpdates>>
httpVars == <<httpReq, httpResp>>
otherVars == <<rlsVars, staffVars, httpVars>>

uiVars == <<step, imageFile, imagePreview, readers, category, selectedSubcategory,
            severity, validationResult, buildingName, floorNumber, roomArea,
            currentLocationField, selectedUrgency, userInput, location, urgency,
            submitting, checkingLocation>>
asyncVars == <<valPc, valSent, sub>>
backendVars == <<storage, issues, points, notifications>>
ghostVars == <<nSubmits, oracleCalls, oracleOutcome, validSeen, insertFailed,
              resetFromInvalid, passInserted, validatedImage>>
vars == <<variant, scenario, mounted, rpc, otherVars, uiVars, asyncVars, backendVars, ghostVars>>

Wizard == variant = "part_003"
Chat == variant \in {"part_004", "ReportIssue"}

\* what the user picks and types in the scenario
PickFiles ==
  IF scenario = "files" THEN Files ELSE IF imageFile = Null THEN {"f1"} ELSE {}
PickCategories ==
  IF Wizard THEN (IF scenario = "categories" THEN WizardCategories ELSE {"water"})
            ELSE (IF scenario = "categories" THEN ChatCategories ELSE {"water_leak"})
PickSubcategories(cat) ==
  IF scenario = "categories" THEN categorySubcategories[cat]
                             ELSE categorySubcategories[cat] \cap {"Leak"}
PickText == IF scenario = "text" THEN FieldValues ELSE {<<" ", "a">>}
PickUrgency == IF scenario = "urgency" THEN DOMAIN urgencyOptions ELSE {"needs_attention"}
PickSeverity == IF scenario = "urgency" THEN Severities ELSE {"medium"}

\* everything the submit handlers read and never write
formVars == <<variant, scenario, mounted, rpc, otherVars, imageFile, imagePreview, readers, category,
              selectedSubcategory, severity, validationResult, buildingName,
              floorNumber, roomArea, currentLocationField, selectedUrgency,
              userInput, location, urgency>>

\* the draft the user has entered
Draft ==
  <<imageFile, category, selectedSubcategory, severity, buildingName, floorNumber,
    roomArea, selectedUrgency, location, urgency, validationResult>>

Slots == 1..MaxAttempts
IdleAttempt ==
  [pc |-> "idle", gate |-> "none", geo |-> "none", coord |-> Null, lookup |-> "none",
   eff |-> {}, fails |-> {}, path |-> 0]
EndPcs == {"idle", "blocked", "failed", "done"}
InFlight(i) == sub[i].pc \notin EndPcs

Calls == 1..MaxCalls
NoCall == [st |-> "none", delta |-> 0, seen |-> 0]

\* ------------------------------------------- issues: row-level policies
MaxRows == 2          \* rows of table issues under the policies

\* auth.users, and user_roles as handle_new_user fills it; "sm" holds both
\* roles, which UNIQUE (user_id, role) allows
Users == {"s1", "s2", "m1", "sm"}
user_roles ==
  {[user_id |-> "s1", role |-> "student"], [user_id |-> "s2", role |-> "student"],
   [user_id |-> "m1", role |-> "maintenance"],
   [user_id |-> "sm", role |-> "student"], [user_id |-> "sm", role |-> "maintenance"]}
issue_status == {"submitted", "in_progress", "resolved"}

NoStatement ==
  [kind |-> "none", uid |-> "", id |-> 0, student_id |-> "", status |-> "",
   rows |-> {}, ok |-> FALSE]

\* ------------------------------------------------- maintenance work page
MaxUpdates == 3       \* presses of "Update Issue" explored in one behaviour

\* the two browser sessions of maintenance staff that can have the page open
Sessions == {1, 2}

\* the ids of the rows of table issues
AllIssueIds == {1, 2}
IssueIds == DOMAIN tickets

\* resolved_image_url: null, or the public URL of resolved/<id>/<time>.<ext>
NoUrl == <<>>
ProofUrl(id) == <<"resolved", id>>

\* selectedIssue === null
NoIssue == [id |-> 0, student_id |-> "", status |-> "", resolved_image_url |-> NoUrl]

\* what an invocation of handleUpdateIssue closes over
NoUpdate ==
  [selectedIssue |-> NoIssue, newStatus |-> "", previousStatus |-> "",
   resolvedImageFile |-> Null, resolvedImageUrl |-> NoUrl]

\* the page after construction: its useState values, and no update running
NewSession ==
  [issues |-> <<>>, selectedIssue |-> NoIssue, newStatus |-> "",
   previousStatus |-> "", resolvedImageFile |-> Null, updating |-> FALSE,
   pc |-> "idle", call |-> NoUpdate]

\* n rows of table issues as submitIssue inserts them
TableRows(n) ==
  [i \in 1..n |-> [id |-> i, student_id |-> user, status |-> "submitted",
                   resolved_image_url |-> NoUrl]]

\* ------------------------------------------------ requests to the handlers
\* no request sent yet
NoRequest ==
  [fn |-> "none", method |-> "", imageBase64 |-> Null,
   run |-> [key |-> TRUE, gw |-> "ok", content |-> <<>>],
   body |-> [hasLatitude |-> FALSE, latitude |-> 0, hasLongitude |-> FALSE, longitude |-> 0]]
NoResponse == [status |-> 0, body |-> Null, insideCampus |-> "undefined"]

ReportInit ==
  /\ variant \in Variants
  /\ rpc = [c \in Calls |-> NoCall]
  /\ scenario \in Scenarios
  /\ mounted = TRUE
  /\ step = "upload"
  /\ imageFile = Null
  /\ imagePreview = Null
  /\ readers = {}
  /\ category = ""
  /\ selectedSubcategory = ""
  /\ severity = ""
  /\ validationResult = Null
  /\ buildingName = <<>>
  /\ floorNumber = <<>>
  /\ roomArea = <<>>
  /\ currentLocationField = "building"
  /\ selectedUrgency = ""
  /\ userInput = <<>>
  /\ location = <<>>
  /\ urgency = <<>>
  /\ submitting = FALSE
  /\ checkingLocation = FALSE
  /\ valPc = "idle"
  /\ valSent = Null
  /\ sub = [i \in Slots |-> IdleAttempt]
  /\ storage = {}
  /\ issues = <<>>
  /\ points = 0
  /\ notifications = 0
  /\ nSubmits = 0
  /\ oracleCalls = 0
  /\ oracleOutcome = "none"
  /\ validSeen = FALSE
  /\ insertFailed = FALSE
  /\ resetFromInvalid = FALSE
  /\ passInserted = 0
  /\ validatedImage = Null
  /\ rlsIssues = {}
  /\ rlsOp = NoStatement
  /\ sess = [s \in Sessions |-> NewSession]
  /\ awards = [i \in AllIssueIds |-> 0]
  /\ nUpdates = 0
  /\ httpReq = NoRequest
  /\ httpResp = NoResponse

\* the state after construction, with one issue reported
Init ==
  /\ ReportInit
  /\ tickets = TableRows(1)

\* ------------------------------------------------------------- upload step
\* handleFileSelect: the file inputs are rendered in the upload step only
handleFileSelect(f) ==
  /\ mounted
  /\ step = "upload"
  /\ f \in PickFiles
  /\ imageFile' = f
  /\ readers' = readers \cup {f}
  /\ validationResult' = Null
  /\ UNCHANGED <<variant, scenario, mounted, rpc, otherVars, step, imagePreview, category, selectedSubcategory, severity,
                 buildingName, floorNumber, roomArea, currentLocationField,
                 selectedUrgency, userInput, location, urgency, submitting,
                 checkingLocation, asyncVars, backendVars, ghostVars>>

\* reader.onloadend: fires on success (the data URL) and on failure (null)
readerOnLoadEnd(f, ok) ==
  /\ f \in readers
  /\ ok \/ scenario = "files"
  /\ readers' = readers \ {f}
  /\ imagePreview' = IF ok THEN f ELSE Null
  /\ UNCHANGED <<variant, scenario, mounted, rpc, otherVars, step, imageFile, category, selectedSubcategory, severity,
                 validationResult, buildingName, floorNumber, roomArea,
                 currentLocationField, selectedUrgency, userInput, location, urgency,
                 submitting, checkingLocation, asyncVars, backendVars, ghostVars>>

\* what a category button of the page does to selectedSubcategory: the wizard
\* calls setSelectedSubcategory(''), the chat pages have no such state
SubcategoryAfterCategory_kept(cat) == selectedSubcategory
SubcategoryAfterCategory(cat) == IF Wizard THEN "" ELSE selectedSubcategory

\* the category buttons
selectCategory(cat) ==
  /\ mounted
  /\ step = "upload"
  /\ cat \in PickCategories
  /\ category' = cat
  /\ selectedSubcategory' = SubcategoryAfterCategory(cat)
  /\ UNCHANGED <<variant, scenario, mounted, rpc, otherVars, step, imageFile, imagePreview, readers, severity,
                 validationResult, buildingName, floorNumber, roomArea,
                 currentLocationField, selectedUrgency, userInput, location, urgency,
                 submitting, checkingLocation, asyncVars, backendVars, ghostVars>>

\* the subcategory buttons of the wizard, rendered once a category is chosen
selectSubcategory(subcat) ==
  /\ mounted
  /\ Wizard
  /\ step = "upload"
  /\ category # ""
  /\ subcat \in PickSubcategories(category)
  /\ selectedSubcategory' = subcat
  /\ UNCHANGED <<variant, scenario, mounted, rpc, otherVars, step, imageFile, imagePreview, readers, category, severity,
                 validationResult, buildingName, floorNumber, roomArea,
                 currentLocationField, selectedUrgency, userInput, location, urgency,
                 submitting, checkingLocation, asyncVars, backendVars, ghostVars>>

\* the severity buttons of the chat pages
selectSeverity(sev) ==
  /\ mounted
  /\ Chat
  /\ step = "upload"
  /\ sev \in PickSeverity
  /\ severity' = sev
  /\ UNCHANGED <<variant, scenario, mounted, rpc, otherVars, step, imageFile, imagePreview, readers, category,
                 selectedSubcategory, validationResult, buildingName, floorNumber,
                 roomArea, currentLocationField, selectedUrgency, userInput, location,
                 urgency, submitting, checkingLocation, asyncVars, backendVars,
                 ghostVars>>

\* the user leaves /report: the page is unmounted, what its handlers await is
\* not cancelled, and the setters they call afterwards change nothing that is
\* rendered
leavePage ==
  /\ mounted
  /\ mounted' = FALSE
  /\ UNCHANGED <<variant, scenario, rpc, otherVars, uiVars, asyncVars, backendVars, ghostVars>>

\* --------------------------------------------- validate-image edge function
\* the text the AI gateway returns, as a sequence of tokens: "{" and "}" are
\* braces, "T" and "F" the members of a verdict with isValid true or false,
\* "txt" any other text
Tokens == {"txt", "{", "}", "T", "F"}
MaxContent == 3
Contents == UNION {[1..n -> Tokens] : n \in 0..MaxContent}

GatewayOutcomes == {"fetch_throws", "not_ok", "bad_json", "ok"}

\* one run of the handler: is LOVABLE_API_KEY set, how the gateway call ends,
\* and the content of the completion when it ends well
OracleRuns ==
  {[key |-> TRUE, gw |-> "ok", content |-> c] : c \in Contents}
  \cup {[key |-> TRUE, gw |-> g, content |-> <<>>] : g \in GatewayOutcomes \ {"ok"}}
  \cup {[key |-> FALSE, gw |-> "ok", content |-> <<>>]}

\* outside the "oracle" scenario the gateway answers with one JSON object
PickOracleRuns ==
  IF scenario = "oracle" THEN OracleRuns
  ELSE {[key |-> TRUE, gw |-> "ok", content |-> <<"{", b, "}">>] : b \in {"T", "F"}}

VerdictValid   == [isValid |-> "true",  reason |-> "shows an issue", confidence |-> 95]
VerdictInvalid == [isValid |-> "false", reason |-> "no environmental issue visible", confidence |-> 92]
VerdictEmpty   == [isValid |-> "undefined", reason |-> "undefined", confidence |-> 0]
\* the verdict the handler substitutes when the content cannot be parsed
ParseFallback  == [isValid |-> "true", reason |-> "Unable to analyze image - allowing submission", confidence |-> 50]
\* the verdict the handler substitutes when the gateway call fails
ErrorFallback  == [isValid |-> "true", reason |-> "Validation service unavailable", confidence |-> 0]

\* content.match(/\{[\s\S]*\}/): from the first "{" to the last "}"
FirstOpen(c) == CHOOSE i \in 1..Len(c) : c[i] = "{" /\ \A j \in 1..(i - 1) : c[j] # "{"
LastClose(c) == CHOOSE i \in 1..Len(c) : c[i] = "}" /\ \A j \in (i + 1)..Len(c) : c[j] # "}"
HasMatch(c) == \E i, j \in 1..Len(c) : i < j /\ c[i] = "{" /\ c[j] = "}"
jsonMatch(c) == SubSeq(c, FirstOpen(c), LastClose(c))

\* JSON.parse of the matched text
Parses(m) == m \in { <<"{", "T", "}">>, <<"{", "F", "}">>, <<"{", "}">> }
JSONparse(m) ==
  CASE m = <<"{", "T", "}">> -> VerdictValid
    [] m = <<"{", "F", "}">> -> VerdictInvalid
    [] m = <<"{", "}">>      -> VerdictEmpty

\* handler of validate-image: the HTTP status and the JSON body it returns
validateImageHandler(imageBase64, keyConfigured, gw, content) ==
  IF imageBase64 = Null THEN [status |-> 400, body |-> Null]
  ELSE IF ~keyConfigured THEN [status |-> 200, body |-> ErrorFallback]
  ELSE IF gw # "ok" THEN [status |-> 200, body |-> ErrorFallback]
  ELSE IF HasMatch(content) /\ Parses(jsonMatch(content))
       THEN [status |-> 200, body |-> JSONparse(jsonMatch(content))]
       ELSE [status |-> 200, body |-> ParseFallback]

\* ---------------------------------------------------------- validateImage
\* the step that follows a valid verdict
AfterValidation == IF Wizard THEN "location" ELSE "chat"

\* the Continue button of the upload step: proceedToLocation / proceedToChat
\* up to the await of functions.invoke in validateImage
proceedToLocation_noValidation ==
  /\ mounted
  /\ step = "upload"
  /\ valPc = "idle"
  /\ imageFile # Null /\ category # ""
  /\ IF Wizard THEN selectedSubcategory # "" ELSE severity # ""
  /\ imagePreview # Null
  /\ step' = AfterValidation
  /\ UNCHANGED <<variant, scenario, mounted, rpc, otherVars, imageFile, imagePreview, readers, category,
                 selectedSubcategory, severity, validationResult, buildingName,
                 floorNumber, roomArea, currentLocationField, selectedUrgency,
                 userInput, location, urgency, submitting, checkingLocation,
                 asyncVars, backendVars, ghostVars>>
proceedToLocation ==
  /\ mounted
  /\ step = "upload"
  /\ valPc = "idle"
  /\ imageFile # Null /\ category # ""
  /\ IF Wizard THEN selectedSubcategory # "" ELSE severity # ""
  /\ imagePreview # Null
  /\ oracleCalls < MaxValidations
  /\ step' = "validating"
  /\ valPc' = "waiting"
  /\ valSent' = imagePreview
  /\ oracleCalls' = oracleCalls + 1
  /\ oracleOutcome' = "pending"
  /\ UNCHANGED <<variant, scenario, mounted, rpc, otherVars, imageFile, imagePreview, readers, category,
                 selectedSubcategory, severity, validationResult, buildingName,
                 floorNumber, roomArea, currentLocationField, selectedUrgency,
                 userInput, location, urgency, submitting, checkingLocation, sub,
                 backendVars, nSubmits, validSeen, insertFailed,
                 resetFromInvalid, passInserted, validatedImage>>

\* functions.invoke settles with { error }, or rejects: back to the upload step
validateImageError(how) ==
  /\ valPc = "waiting"
  /\ scenario = "oracle"
  /\ how \in {"error", "throws"}
  /\ step' = "upload"
  /\ valPc' = "idle"
  /\ valSent' = Null
  /\ oracleOutcome' = IF how = "error" THEN "invoke_error" ELSE "invoke_throws"
  /\ UNCHANGED <<variant, scenario, mounted, rpc, otherVars, imageFile, imagePreview, readers, category,
                 selectedSubcategory, severity, validationResult, buildingName,
                 floorNumber, roomArea, currentLocationField, selectedUrgency,
                 userInput, location, urgency, submitting, checkingLocation, sub,
                 backendVars, nSubmits, oracleCalls, validSeen, insertFailed,
                 resetFromInvalid, passInserted, validatedImage>>

\* how a run of the handler ended, seen from the gateway
RunOutcome(run) ==
  IF ~run.key THEN "not_configured" ELSE IF run.gw # "ok" THEN run.gw ELSE "answered"

\* the step validateImage and its caller set for the data of the handler
StepAfterVerdict_noInvalidStep(data) ==
  IF data.isValid = "true" THEN AfterValidation ELSE "upload"
StepAfterVerdict(data) ==
  IF data.isValid = "true" THEN AfterValidation ELSE "invalid"

\* functions.invoke settles with the data the handler returned; the rest of
\* validateImage and of proceedToLocation runs
validateImageData(run) ==
  /\ valPc = "waiting"
  /\ run \in PickOracleRuns
  /\ LET resp == validateImageHandler(valSent, run.key, run.gw, run.content)
         data == resp.body
     IN /\ resp.status = 200
        /\ validationResult' = data
        /\ step' = StepAfterVerdict(data)
        /\ validatedImage' = IF data.isValid = "true" THEN valSent ELSE validatedImage
        /\ validSeen' = (validSeen \/ data.isValid = "true")
  /\ currentLocationField' = "building"
  /\ valPc' = "idle"
  /\ valSent' = Null
  /\ oracleOutcome' = RunOutcome(run)
  /\ UNCHANGED <<variant, scenario, mounted, rpc, otherVars, imageFile, imagePreview, readers, category,
                 selectedSubcategory, severity, buildingName, floorNumber, roomArea,
                 selectedUrgency, userInput, location, urgency, submitting,
                 checkingLocation, sub, backendVars, nSubmits, oracleCalls,
                 insertFailed,
                 resetFromInvalid, passInserted>>

\* the state of the wizard that resetForm writes
FormState ==
  [step |-> step, imageFile |-> imageFile, imagePreview |-> imagePreview,
   category |-> category, selectedSubcategory |-> selectedSubcategory,
   buildingName |-> buildingName, floorNumber |-> floorNumber, roomArea |-> roomArea,
   selectedUrgency |-> selectedUrgency, validationResult |-> validationResult,
   currentLocationField |-> currentLocationField]

\* the setters of resetForm, applied to a state of the wizard
ResetFields_keepsSubcategory(d) ==
  [d EXCEPT !.step = "upload", !.imageFile = Null, !.imagePreview = Null,
            !.category = "", !.buildingName = <<>>, !.floorNumber = <<>>,
            !.roomArea = <<>>, !.selectedUrgency = "", !.validationResult = Null,
            !.currentLocationField = "building"]
ResetFields(d) ==
  [d EXCEPT !.step = "upload", !.imageFile = Null, !.imagePreview = Null,
            !.category = "", !.selectedSubcategory = "", !.buildingName = <<>>,
            !.floorNumber = <<>>, !.roomArea = <<>>, !.selectedUrgency = "",
            !.validationResult = Null, !.currentLocationField = "building"]

\* resetForm: "Try Another Image" of the invalid step, "Report Another Issue"
\* of the success step (the check-campus page renders no button there)
resetForm ==
  /\ mounted
  /\ \/ step = "invalid"
     \/ step = "success" /\ variant # "part_004"
  /\ LET d == ResetFields(FormState)
     IN /\ step' = d.step
        /\ imageFile' = d.imageFile
        /\ imagePreview' = d.imagePreview
        /\ category' = d.category
        /\ selectedSubcategory' = d.selectedSubcategory
        /\ buildingName' = d.buildingName
        /\ floorNumber' = d.floorNumber
        /\ roomArea' = d.roomArea
        /\ selectedUrgency' = d.selectedUrgency
        /\ validationResult' = d.validationResult
        /\ currentLocationField' = d.currentLocationField
  /\ severity' = ""
  /\ location' = <<>>
  /\ urgency' = <<>>
  /\ validSeen' = FALSE
  /\ insertFailed' = FALSE
  /\ oracleOutcome' = "none"
  /\ resetFromInvalid' = (resetFromInvalid \/ step = "invalid")
  /\ passInserted' = 0
  /\ validatedImage' = Null
  /\ UNCHANGED <<variant, scenario, mounted, rpc, otherVars, readers, userInput, submitting, checkingLocation,
                 asyncVars, backendVars, nSubmits, oracleCalls>>

\* ----------------------------------------------- wizard: location, urgency
\* onChange of the three inputs of the location step
setBuildingName(v) ==
  /\ mounted
  /\ Wizard /\ step = "location"
  /\ v \in PickText
  /\ buildingName' = v
  /\ UNCHANGED <<variant, scenario, mounted, rpc, otherVars, step, imageFile, imagePreview, readers, category,
                 selectedSubcategory, severity, validationResult, floorNumber,
                 roomArea, currentLocationField, selectedUrgency, userInput, location,
                 urgency, submitting, checkingLocation, asyncVars, backendVars,
                 ghostVars>>

setFloorNumber(v) ==
  /\ mounted
  /\ Wizard /\ step = "location"
  /\ v \in PickText
  /\ floorNumber' = v
  /\ UNCHANGED <<variant, scenario, mounted, rpc, otherVars, step, imageFile, imagePreview, readers, category,
                 selectedSubcategory, severity, validationResult, buildingName,
                 roomArea, currentLocationField, selectedUrgency, userInput, location,
                 urgency, submitting, checkingLocation, asyncVars, backendVars,
                 ghostVars>>

setRoomArea(v) ==
  /\ mounted
  /\ Wizard /\ step = "location"
  /\ v \in PickText
  /\ roomArea' = v
  /\ UNCHANGED <<variant, scenario, mounted, rpc, otherVars, step, imageFile, imagePreview, readers, category,
                 selectedSubcategory, severity, validationResult, buildingName,
                 floorNumber, currentLocationField, selectedUrgency, userInput,
                 location, urgency, submitting, checkingLocation, asyncVars,
                 backendVars, ghostVars>>

\* handleLocationKeyDown with e.key === 'Enter' in one of the three inputs;
\* an Enter that matches no branch changes nothing
handleLocationKeyDown(field) ==
  /\ mounted
  /\ Wizard /\ step = "location"
  /\ scenario = "text"
  /\ \/ /\ field = "building" /\ Trim(buildingName) # <<>>
        /\ currentLocationField' = "floor"
        /\ step' = step
     \/ /\ field = "floor" /\ Trim(floorNumber) # <<>>
        /\ currentLocationField' = "room"
        /\ step' = step
     \/ /\ field = "room" /\ Trim(roomArea) # <<>>
        /\ step' = "urgency"
        /\ currentLocationField' = currentLocationField
  /\ UNCHANGED <<variant, scenario, mounted, rpc, otherVars, imageFile, imagePreview, readers, category,
                 selectedSubcategory, severity, validationResult, buildingName,
                 floorNumber, roomArea, selectedUrgency, userInput, location, urgency,
                 submitting, checkingLocation, asyncVars, backendVars, ghostVars>>

\* proceedToUrgency: the Continue button of the location step
proceedToUrgency ==
  /\ mounted
  /\ Wizard /\ step = "location"
  /\ ~(Trim(buildingName) = <<>> \/ Trim(floorNumber) = <<>> \/ Trim(roomArea) = <<>>)
  /\ step' = "urgency"
  /\ UNCHANGED <<variant, scenario, mounted, rpc, otherVars, imageFile, imagePreview, readers, category,
                 selectedSubcategory, severity, validationResult, buildingName,
                 floorNumber, roomArea, currentLocationField, selectedUrgency,
                 userInput, location, urgency, submitting, checkingLocation,
                 asyncVars, backendVars, ghostVars>>

\* the urgency cards
setSelectedUrgency(u) ==
  /\ mounted
  /\ Wizard /\ step = "urgency"
  /\ u \in PickUrgency
  /\ selectedUrgency' = u
  /\ UNCHANGED <<variant, scenario, mounted, rpc, otherVars, step, imageFile, imagePreview, readers, category,
                 selectedSubcategory, severity, validationResult, buildingName,
                 floorNumber, roomArea, currentLocationField, userInput, location,
                 urgency, submitting, checkingLocation, asyncVars, backendVars,
                 ghostVars>>

\* proceedToSubmit: the Continue button of the urgency step
proceedToSubmit ==
  /\ mounted
  /\ Wizard /\ step = "urgency"
  /\ selectedUrgency # ""
  /\ step' = "submit"
  /\ UNCHANGED <<variant, scenario, mounted, rpc, otherVars, imageFile, imagePreview, readers, category,
                 selectedSubcategory, severity, validationResult, buildingName,
                 floorNumber, roomArea, currentLocationField, selectedUrgency,
                 userInput, location, urgency, submitting, checkingLocation,
                 asyncVars, backendVars, ghostVars>>

\* ------------------------------------------------------- chat pages: chat
\* onChange of the chat input
setUserInput(v) ==
  /\ mounted
  /\ Chat /\ step = "chat"
  /\ v \in PickText
  /\ userInput' = v
  /\ UNCHANGED <<variant, scenario, mounted, rpc, otherVars, step, imageFile, imagePreview, readers, category,
                 selectedSubcategory, severity, validationResult, buildingName,
                 floorNumber, roomArea, currentLocationField, selectedUrgency,
                 location, urgency, submitting, checkingLocation, asyncVars,
                 backendVars, ghostVars>>

\* handleChatSubmit: the first answer is the location, the second the urgency
handleChatSubmit ==
  /\ mounted
  /\ Chat /\ step = "chat"
  /\ Trim(userInput) # <<>>
  /\ IF location = <<>>
       THEN location' = userInput /\ UNCHANGED <<urgency, step>>
       ELSE IF urgency = <<>>
              THEN urgency' = userInput /\ step' = "submit" /\ UNCHANGED location
              ELSE UNCHANGED <<location, urgency, step>>
  /\ userInput' = <<>>
  /\ UNCHANGED <<variant, scenario, mounted, rpc, otherVars, imageFile, imagePreview, readers, category,
                 selectedSubcategory, severity, validationResult, buildingName,
                 floorNumber, roomArea, currentLocationField, selectedUrgency,
                 submitting, checkingLocation, asyncVars, backendVars, ghostVars>>

\* ------------------------------------------------------------ campus check
\* A latitude is counted in the angle that spans one centimetre of a meridian
\* of the sphere of radius R = 6371e3 (111194.93 m to the degree), so that a
\* position exactly MAX_DISTANCE from the center exists; CAMPUS_CENTER is
\* 12.823 degrees north.  Longitudes are in units of 0.0001 degree.
CAMPUS_CENTER == [latitude |-> 142585254, longitude |-> 800444]
MAX_DISTANCE == 1000

\* positions the device can report: the center, 990 m, 1000 m, 1000.01 m and
\* 1201 m north of it, and the equator, all on the meridian of the center
Positions ==
  {[latitude |-> lat, longitude |-> CAMPUS_CENTER.longitude] :
      lat \in {CAMPUS_CENTER.latitude,
               CAMPUS_CENTER.latitude + 99000,
               CAMPUS_CENTER.latitude + 100000,
               CAMPUS_CENTER.latitude + 100001,
               CAMPUS_CENTER.latitude + 120100,
               0}}

\* GeolocationPositionError codes
GeoErrors == {"PERMISSION_DENIED", "POSITION_UNAVAILABLE", "TIMEOUT"}

Abs(n) == IF n < 0 THEN -n ELSE n

\* The Haversine distance in centimetres, for two points of one meridian:
\* there a is sin^2(dphi/2), c is |dphi| and the distance is R * |dphi|.
getDistance(lat1, lon1, lat2, lon2) ==
  CASE lon1 = lon2 -> Abs(lat2 - lat1)

\* what getCurrentPosition can call back with
GeoResults(withTimeout) ==
  {[ok |-> TRUE, coords |-> c, code |-> "none"] : c \in Positions}
  \cup {[ok |-> FALSE, coords |-> Null, code |-> e] :
          e \in (IF withTimeout THEN GeoErrors ELSE GeoErrors \ {"TIMEOUT"})}

\* const insideCampus = distance <= MAX_DISTANCE, the distance in centimetres
InsideCampus_exclusive(distance) == distance < MAX_DISTANCE * 100
InsideCampus(distance) == distance <= MAX_DISTANCE * 100

\* handler of /api/check-campus: status and body.insideCampus
checkCampusHandler(method, latitude, longitude) ==
  IF method # "POST" THEN [status |-> 405, insideCampus |-> "undefined"]
  ELSE IF latitude = 0 \/ longitude = 0 THEN [status |-> 400, insideCampus |-> "undefined"]
  ELSE LET distance == getDistance(latitude, longitude,
                                   CAMPUS_CENTER.latitude, CAMPUS_CENTER.longitude)
       IN [status |-> 200,
           insideCampus |-> IF InsideCampus(distance) THEN "true" ELSE "false"]

\* ------------------------------------------------- collaborators' outcomes
\* a call resolves well, resolves with { error }, or rejects
Outcomes == {"ok", "error", "throws"}

\* outside the "faults" scenario the device is at the campus center and the
\* calls resolve well
PickGeo(withTimeout) ==
  IF scenario = "faults" THEN GeoResults(withTimeout)
  ELSE {[ok |-> TRUE, coords |-> CAMPUS_CENTER, code |-> "none"]}
PickOutcomes == IF scenario = "faults" THEN Outcomes ELSE {"ok"}

\* the slot a new invocation of submitIssue takes
FreeSlot == CHOOSE i \in Slots : ~InFlight(i) /\ \A j \in 1..(i - 1) : InFlight(j)
HasFreeSlot == \E i \in Slots : ~InFlight(i)

\* a new invocation, waiting at pc
NewAttempt(pc) ==
  [pc |-> pc, gate |-> "none", geo |-> "none", coord |-> Null, lookup |-> "none",
   eff |-> {}, fails |-> {}, path |-> nSubmits + 1]

\* catch and finally of submitIssue, after the call named by what failed
SubmitFails(i, what) ==
  /\ sub' = [sub EXCEPT ![i].pc = "failed", ![i].fails = @ \cup {what}]
  /\ submitting' = FALSE

\* -------------------------------------------------- submitIssue (part_003)
categoryLabels ==
  [c \in WizardCategories |->
     CASE c = "air" -> "Air" [] c = "water" -> "Water" [] c = "waste" -> "Waste"]

\* the severity expression of the insert
SeverityOf_twoTiers(u) == IF u = "emergency" THEN "high" ELSE "medium"
SeverityOf(u) ==
  IF u = "emergency" THEN "high" ELSE IF u = "needs_attention" THEN "medium" ELSE "low"

\* the row submitIssue of the wizard inserts
p3_IssueRecord_noFloor(path) ==
  [student_id |-> user,
   image_url |-> path,
   category |-> categoryToDbEnum[category],
   severity |-> SeverityOf(selectedUrgency),
   confidence |-> 100,
   location |-> buildingName \o <<",", " ">> \o roomArea,
   description |-> <<categoryLabels[category], selectedSubcategory,
                     buildingName \o <<",", " ">> \o roomArea, selectedUrgency>>,
   status |-> "submitted"]
p3_IssueRecord(path) ==
  [student_id |-> user,
   image_url |-> path,
   category |-> categoryToDbEnum[category],
   severity |-> SeverityOf(selectedUrgency),
   confidence |-> 100,
   location |-> FullLocation(buildingName, floorNumber, roomArea),
   description |-> <<categoryLabels[category], selectedSubcategory,
                     FullLocation(buildingName, floorNumber, roomArea), selectedUrgency>>,
   status |-> "submitted"]

\* the Submit button up to the await of getCurrentPosition
p3_submitIssue ==
  /\ mounted
  /\ Wizard /\ step = "submit"
  /\ ~submitting /\ ~checkingLocation
  /\ user # Null /\ imageFile # Null /\ category # ""
  /\ nSubmits < MaxSubmits /\ HasFreeSlot
  /\ checkingLocation' = TRUE
  /\ nSubmits' = nSubmits + 1
  /\ sub' = [sub EXCEPT ![FreeSlot] = NewAttempt("geo")]
  /\ UNCHANGED <<formVars, step, submitting, valPc, valSent, backendVars,
                 oracleCalls, oracleOutcome, validSeen, insertFailed,
                 resetFromInvalid, passInserted, validatedImage>>

\* if (distance > MAX_DISTANCE), the distance in centimetres
TooFar_units(distance) == distance > MAX_DISTANCE * 1000
TooFar(distance) == distance > MAX_DISTANCE * 100

\* the value checkCampusLocation returns for a callback of getCurrentPosition
checkCampusLocation_failOpen(geo) ==
  IF geo.ok
    THEN ~TooFar(getDistance(geo.coords.latitude, geo.coords.longitude,
                             CAMPUS_CENTER.latitude, CAMPUS_CENTER.longitude))
    ELSE TRUE
checkCampusLocation(geo) ==
  IF geo.ok
    THEN ~TooFar(getDistance(geo.coords.latitude, geo.coords.longitude,
                             CAMPUS_CENTER.latitude, CAMPUS_CENTER.longitude))
    ELSE FALSE

\* getCurrentPosition calls back: the rest of checkCampusLocation, then
\* submitIssue up to the await of the upload
p3_checkCampusLocation(i, geo) ==
  /\ Wizard /\ sub[i].pc = "geo"
  /\ geo \in PickGeo(TRUE)
  /\ checkingLocation' = FALSE
  /\ LET insideCampus == checkCampusLocation(geo)
     IN /\ sub' = [sub EXCEPT ![i].pc = IF insideCampus THEN "upload" ELSE "blocked",
                              ![i].gate = IF insideCampus THEN "inside" ELSE "outside",
                              ![i].geo = IF geo.ok THEN "position" ELSE geo.code,
                              ![i].coord = geo.coords]
        /\ submitting' = IF insideCampus THEN TRUE ELSE submitting
  /\ UNCHANGED <<formVars, step, valPc, valSent, backendVars, ghostVars>>

\* the upload settles; its { error } is not read
p3_upload(i, out) ==
  /\ Wizard /\ sub[i].pc = "upload"
  /\ out \in PickOutcomes
  /\ CASE out = "ok" ->
            /\ storage' = storage \cup {[path |-> sub[i].path, file |-> imageFile]}
            /\ sub' = [sub EXCEPT ![i].pc = "insert", ![i].eff = @ \cup {"upload"}]
            /\ UNCHANGED submitting
       [] out = "error" ->
            /\ sub' = [sub EXCEPT ![i].pc = "insert", ![i].fails = @ \cup {"upload"}]
            /\ UNCHANGED <<storage, submitting>>
       [] out = "throws" ->
            /\ SubmitFails(i, "upload")
            /\ UNCHANGED storage
  /\ UNCHANGED <<formVars, step, checkingLocation, valPc, valSent, issues, points,
                 notifications, ghostVars>>

\* if (issueError) throw issueError, and a rejected insert
InsertThrows_onlyRejection(out) == out = "throws"
InsertThrows(out) == out # "ok"

\* the insert settles
p3_insert(i, out) ==
  /\ Wizard /\ sub[i].pc = "insert"
  /\ out \in PickOutcomes
  /\ passInserted' = IF out = "ok" THEN passInserted + 1 ELSE passInserted
  /\ insertFailed' = (insertFailed \/ out # "ok")
  /\ IF InsertThrows(out)
       THEN /\ SubmitFails(i, "insert")
            /\ UNCHANGED issues
       ELSE /\ issues' = IF out = "ok" THEN Append(issues, p3_IssueRecord(sub[i].path))
                                      ELSE issues
            /\ sub' = [sub EXCEPT ![i].pc = "points",
                                  ![i].eff = IF out = "ok" THEN @ \cup {"insert"} ELSE @,
                                  ![i].fails = IF out = "ok" THEN @ ELSE @ \cup {"insert"}]
            /\ UNCHANGED submitting
  /\ UNCHANGED <<formVars, step, checkingLocation, valPc, valSent, storage, points,
                 notifications, nSubmits, oracleCalls, oracleOutcome, validSeen,
                 resetFromInvalid, validatedImage>>

\* rpc('increment_points', 5) settles; its { error } is not read
p3_incrementPoints(i, out) ==
  /\ Wizard /\ sub[i].pc = "points"
  /\ out \in PickOutcomes
  /\ CASE out = "ok" ->
            /\ points' = points + 5
            /\ sub' = [sub EXCEPT ![i].pc = "notify", ![i].eff = @ \cup {"points"}]
            /\ UNCHANGED submitting
       [] out = "error" ->
            /\ sub' = [sub EXCEPT ![i].pc = "notify", ![i].fails = @ \cup {"points"}]
            /\ UNCHANGED <<points, submitting>>
       [] out = "throws" ->
            /\ SubmitFails(i, "points")
            /\ UNCHANGED points
  /\ UNCHANGED <<formVars, step, checkingLocation, valPc, valSent, storage, issues,
                 notifications, ghostVars>>

\* does a failed notification reach the outer catch
NotifyThrows_noInnerCatch(out) == out = "throws"
NotifyThrows(out) == FALSE

\* send-issue-notification settles; a rejection is caught, an { error } not read
p3_notify(i, out) ==
  /\ Wizard /\ sub[i].pc = "notify"
  /\ out \in PickOutcomes
  /\ notifications' = IF out = "ok" THEN notifications + 1 ELSE notifications
  /\ IF NotifyThrows(out)
       THEN /\ SubmitFails(i, "notify")
            /\ UNCHANGED step
       ELSE /\ sub' = [sub EXCEPT ![i].pc = "done",
                                  ![i].eff = IF out = "ok" THEN @ \cup {"notify"} ELSE @,
                                  ![i].fails = IF out = "ok" THEN @ ELSE @ \cup {"notify"}]
            /\ step' = "success"
            /\ submitting' = FALSE
  /\ UNCHANGED <<formVars, checkingLocation, valPc, valSent, storage, issues, points,
                 ghostVars>>

\* -------------------------------------- submitIssue (part_004, lines 1-310)
\* The page takes category and severity from its state; the buttons that set
\* them are those of the chat pages, so the model reaches this handler from
\* at least the states the page can be in.
chatCategoryLabels ==
  [c \in ChatCategories |->
     CASE c = "water_leak" -> "Water Leak"
       [] c = "cleanliness" -> "Cleanliness"
       [] c = "furniture_damage" -> "Furniture Damage"
       [] c = "electrical_issue" -> "Electrical Issue"
       [] c = "others" -> "Others"]

\* the row submitIssue of the chat pages inserts
chat_IssueRecord(path) ==
  [student_id |-> user,
   image_url |-> path,
   category |-> category,
   severity |-> severity,
   confidence |-> 100,
   location |-> location,
   description |-> IF variant = "part_004" THEN <<location, urgency>>
                   ELSE <<chatCategoryLabels[category], location, urgency>>,
   status |-> "submitted"]

\* how the fetch of /api/check-campus and res.json() can end
FetchOutcomes == {"network_error", "not_json", "error_json", "handler"}

\* the Submit button (disabled only while submitting) up to the await of
\* getCurrentPosition
p4_submitIssue ==
  /\ mounted
  /\ variant = "part_004" /\ step = "submit"
  /\ ~submitting
  /\ user # Null /\ imageFile # Null /\ category # "" /\ severity # ""
  /\ nSubmits < MaxSubmits /\ HasFreeSlot
  /\ nSubmits' = nSubmits + 1
  /\ sub' = [sub EXCEPT ![FreeSlot] = NewAttempt("geo")]
  /\ UNCHANGED <<formVars, step, submitting, checkingLocation, valPc, valSent,
                 backendVars, oracleCalls, oracleOutcome, validSeen, insertFailed,
                 resetFromInvalid, passInserted, validatedImage>>

\* getCurrentPosition(resolve, reject) calls back; the fetch is sent, or the
\* catch returns
p4_getCurrentPosition(i, geo) ==
  /\ variant = "part_004" /\ sub[i].pc = "geo"
  /\ geo \in PickGeo(FALSE)
  /\ IF geo.ok
       THEN sub' = [sub EXCEPT ![i].pc = "fetch", ![i].geo = "position",
                               ![i].coord = geo.coords]
       ELSE sub' = [sub EXCEPT ![i].pc = "blocked", ![i].geo = geo.code,
                               ![i].gate = "outside"]
  /\ UNCHANGED <<formVars, step, submitting, checkingLocation, valPc, valSent,
                 backendVars, ghostVars>>

\* does submitIssue go on after the fetch: res.json() gave data with a truthy
\* insideCampus
p4_insideCampus(net, resp) == net = "handler" /\ resp.insideCampus = "true"

\* the fetch and res.json() settle; then submitIssue up to the await of the upload
p4_checkCampus(i, net) ==
  /\ variant = "part_004" /\ sub[i].pc = "fetch"
  /\ net = "handler" \/ scenario = "faults"
  /\ LET resp == checkCampusHandler("POST", sub[i].coord.latitude, sub[i].coord.longitude)
         insideCampus == p4_insideCampus(net, resp)
     IN /\ sub' = [sub EXCEPT ![i].pc = IF insideCampus THEN "upload" ELSE "blocked",
                              ![i].gate = IF insideCampus THEN "inside" ELSE "outside",
                              ![i].lookup = IF net = "handler" /\ resp.status # 200
                                              THEN "error_status" ELSE net]
        /\ submitting' = IF insideCampus THEN TRUE ELSE submitting
  /\ UNCHANGED <<formVars, step, checkingLocation, valPc, valSent, backendVars,
                 ghostVars>>

\* the upload settles; its { error } is not read
p4_upload(i, out) ==
  /\ variant = "part_004" /\ sub[i].pc = "upload"
  /\ out \in PickOutcomes
  /\ CASE out = "ok" ->
            /\ storage' = storage \cup {[path |-> sub[i].path, file |-> imageFile]}
            /\ sub' = [sub EXCEPT ![i].pc = "insert", ![i].eff = @ \cup {"upload"}]
            /\ UNCHANGED submitting
       [] out = "error" ->
            /\ sub' = [sub EXCEPT ![i].pc = "insert", ![i].fails = @ \cup {"upload"}]
            /\ UNCHANGED <<storage, submitting>>
       [] out = "throws" ->
            /\ SubmitFails(i, "upload")
            /\ UNCHANGED storage
  /\ UNCHANGED <<formVars, step, checkingLocation, valPc, valSent, issues, points,
                 notifications, ghostVars>>

\* the insert settles; its { error } is not read
p4_insert(i, out) ==
  /\ variant = "part_004" /\ sub[i].pc = "insert"
  /\ out \in PickOutcomes
  /\ passInserted' = IF out = "ok" THEN passInserted + 1 ELSE passInserted
  /\ insertFailed' = (insertFailed \/ out # "ok")
  /\ CASE out = "ok" ->
            /\ issues' = Append(issues, chat_IssueRecord(sub[i].path))
            /\ sub' = [sub EXCEPT ![i].pc = "done", ![i].eff = @ \cup {"insert"}]
            /\ step' = "success"
            /\ submitting' = FALSE
       [] out = "error" ->
            /\ sub' = [sub EXCEPT ![i].pc = "done", ![i].fails = @ \cup {"insert"}]
            /\ step' = "success"
            /\ submitting' = FALSE
            /\ UNCHANGED issues
       [] out = "throws" ->
            /\ SubmitFails(i, "insert")
            /\ UNCHANGED <<issues, step>>
  /\ UNCHANGED <<formVars, checkingLocation, valPc, valSent, storage, points,
                 notifications, nSubmits, oracleCalls, oracleOutcome, validSeen,
                 resetFromInvalid, validatedImage>>

\* ------------------------------------ submitIssue (src/pages/ReportIssue.tsx)
\* the Submit button up to the await of the upload
ri_submitIssue ==
  /\ mounted
  /\ variant = "ReportIssue" /\ step = "submit"
  /\ ~submitting
  /\ user # Null /\ imageFile # Null /\ category # "" /\ severity # ""
  /\ nSubmits < MaxSubmits /\ HasFreeSlot
  /\ submitting' = TRUE
  /\ nSubmits' = nSubmits + 1
  /\ sub' = [sub EXCEPT ![FreeSlot] = NewAttempt("upload")]
  /\ UNCHANGED <<formVars, step, checkingLocation, valPc, valSent, backendVars,
                 oracleCalls, oracleOutcome, validSeen, insertFailed,
                 resetFromInvalid, passInserted, validatedImage>>

\* the upload settles; uploadError is thrown
ri_upload(i, out) ==
  /\ variant = "ReportIssue" /\ sub[i].pc = "upload"
  /\ out \in PickOutcomes
  /\ IF out = "ok"
       THEN /\ storage' = storage \cup {[path |-> sub[i].path, file |-> imageFile]}
            /\ sub' = [sub EXCEPT ![i].pc = "insert", ![i].eff = @ \cup {"upload"}]
            /\ UNCHANGED submitting
       ELSE /\ SubmitFails(i, "upload")
            /\ UNCHANGED storage
  /\ UNCHANGED <<formVars, step, checkingLocation, valPc, valSent, issues, points,
                 notifications, ghostVars>>

\* insert(...).select().single() settles; issueError is thrown
ri_insert(i, out) ==
  /\ variant = "ReportIssue" /\ sub[i].pc = "insert"
  /\ out \in PickOutcomes
  /\ passInserted' = IF out = "ok" THEN passInserted + 1 ELSE passInserted
  /\ insertFailed' = (insertFailed \/ out # "ok")
  /\ IF InsertThrows(out)
       THEN /\ SubmitFails(i, "insert")
            /\ UNCHANGED issues
       ELSE /\ issues' = IF out = "ok" THEN Append(issues, chat_IssueRecord(sub[i].path))
                                      ELSE issues
            /\ sub' = [sub EXCEPT ![i].pc = "notify",
                                  ![i].eff = IF out = "ok" THEN @ \cup {"insert"} ELSE @,
                                  ![i].fails = IF out = "ok" THEN @ ELSE @ \cup {"insert"}]
            /\ UNCHANGED submitting
  /\ UNCHANGED <<formVars, step, checkingLocation, valPc, valSent, storage, points,
                 notifications, nSubmits, oracleCalls, oracleOutcome, validSeen,
                 resetFromInvalid, validatedImage>>

\* send-issue-notification settles; emailError is logged, a rejection caught
ri_notify(i, out) ==
  /\ variant = "ReportIssue" /\ sub[i].pc = "notify"
  /\ out \in PickOutcomes
  /\ notifications' = IF out = "ok" THEN notifications + 1 ELSE notifications
  /\ IF NotifyThrows(out)
       THEN /\ SubmitFails(i, "notify")
            /\ UNCHANGED step
       ELSE /\ sub' = [sub EXCEPT ![i].pc = "done",
                                  ![i].eff = IF out = "ok" THEN @ \cup {"notify"} ELSE @,
                                  ![i].fails = IF out = "ok" THEN @ ELSE @ \cup {"notify"}]
            /\ step' = "success"
            /\ submitting' = FALSE
  /\ UNCHANGED <<formVars, checkingLocation, valPc, valSent, storage, issues, points,
                 ghostVars>>

Next ==
  \/ leavePage
  \/ \E f \in Files : handleFileSelect(f)
  \/ \E f \in Files, ok \in BOOLEAN : readerOnLoadEnd(f, ok)
  \/ \E cat \in WizardCategories \cup ChatCategories : selectCategory(cat)
  \/ \E subcat \in UNION {categorySubcategories[c] : c \in WizardCategories} :
        selectSubcategory(subcat)
  \/ \E sev \in Severities : selectSeverity(sev)
  \/ proceedToLocation
  \/ \E how \in {"error", "throws"} : validateImageError(how)
  \/ \E run \in OracleRuns : validateImageData(run)
  \/ resetForm
  \/ \E v \in FieldValues : setBuildingName(v)
  \/ \E v \in FieldValues : setFloorNumber(v)
  \/ \E v \in FieldValues : setRoomArea(v)
  \/ \E field \in {"building", "floor", "room"} : handleLocationKeyDown(field)
  \/ proceedToUrgency
  \/ \E u \in DOMAIN urgencyOptions : setSelectedUrgency(u)
  \/ proceedToSubmit
  \/ \E v \in FieldValues : setUserInput(v)
  \/ handleChatSubmit
  \/ p3_submitIssue
  \/ \E i \in Slots, geo \in GeoResults(TRUE) : p3_checkCampusLocation(i, geo)
  \/ \E i \in Slots, out \in Outcomes : p3_upload(i, out)
  \/ \E i \in Slots, out \in Outcomes : p3_insert(i, out)
  \/ \E i \in Slots, out \in Outcomes : p3_incrementPoints(i, out)
  \/ \E i \in Slots, out \in Outcomes : p3_notify(i, out)
  \/ p4_submitIssue
  \/ \E i \in Slots, geo \in GeoResults(FALSE) : p4_getCurrentPosition(i, geo)
  \/ \E i \in Slots, net \in FetchOutcomes : p4_checkCampus(i, net)
  \/ \E i \in Slots, out \in Outcomes : p4_upload(i, out)
  \/ \E i \in Slots, out \in Outcomes : p4_insert(i, out)
  \/ ri_submitIssue
  \/ \E i \in Slots, out \in Outcomes : ri_upload(i, out)
  \/ \E i \in Slots, out \in Outcomes : ri_insert(i, out)
  \/ \E i \in Slots, out \in Outcomes : ri_notify(i, out)

Spec == Init /\ [][Next]_vars

\* ================================================================ properties
\* the steps after the validation
PastValidation == {"location", "urgency", "chat", "submit", "success"}

\* the distance of a position from the campus center, in centimetres
FromCenter(coord) ==
  getDistance(coord.latitude, coord.longitude,
              CAMPUS_CENTER.latitude, CAMPUS_CENTER.longitude)

\* C1: the workflow is at step 'location' or at a later step only if
\* validate-image returned a verdict with isValid = true for the current draft.
C1_ValidatedBeforeLocation ==
  step \in PastValidation =>
    /\ validSeen
    /\ validationResult.isValid = "true"

C1_Witness ==
  /\ step \in {"location", "chat"}
  /\ validSeen
  /\ validationResult = VerdictValid

\* C2: no invocation of submitIssue reaches the image upload or the insert
\* into 'issues' unless the campus check of that same invocation returned
\* inside; submitIssue of src/pages/ReportIssue.tsx makes no campus check.
C2_PersistOnlyInsideCampus ==
  \A i \in Slots :
    (sub[i].pc \in {"upload", "insert", "points", "notify", "done", "failed"}
       \/ sub[i].eff # {})
      => sub[i].gate = "inside"

\* C3: the wizard goes from 'location' to 'urgency' only when building, floor
\* and room are all non-empty after trimming, by the Continue button or by
\* Enter in any of the fields; Enter in the room field checks the room alone.
C3_LocationComplete ==
  [][(Wizard /\ step = "location" /\ step' = "urgency")
       => /\ Trim(buildingName') # <<>>
          /\ Trim(floorNumber') # <<>>
          /\ Trim(roomArea') # <<>>]_vars

\* C4: a verdict whose isValid is not true puts the workflow at step
\* 'invalid'; from there it only goes back to 'upload', and until a later
\* verdict is valid no submit starts and nothing is uploaded, inserted,
\* awarded or notified.
C4_RejectedNeverPersists ==
  [][/\ (valPc = "waiting" /\ valPc' = "idle"
           /\ oracleOutcome' \notin {"invoke_error", "invoke_throws"}
           /\ validationResult'.isValid # "true")
          => step' = "invalid"
     /\ step = "invalid"
          => step' \in {"invalid", "upload"} /\ UNCHANGED <<backendVars, sub, nSubmits>>
     /\ ~validSeen => UNCHANGED <<backendVars, sub, nSubmits>>]_vars

C4_Witness ==
  /\ step = "invalid"
  /\ validationResult = VerdictInvalid
  /\ ~validSeen

\* C5: when the campus check of a submit decides on a position more than
\* 1000 m from the campus center, the submit is blocked with nothing written,
\* the step stays as it is ('submit' in the wizard) and no field of the draft
\* changes.
C5_OutsideBlocked ==
  [][\A i \in Slots :
       (/\ sub[i].pc \in {"geo", "fetch"}
        /\ sub'[i].pc \notin {"geo", "fetch"}
        /\ sub'[i].geo = "position"
        /\ FromCenter(sub'[i].coord) > 1000 * 100)
         => /\ sub'[i].pc = "blocked"
            /\ sub'[i].eff = {}
            /\ step' = step
            /\ Wizard => step = "submit"
            /\ Draft' = Draft
            /\ UNCHANGED backendVars]_vars

C5_Witness ==
  \E i \in Slots :
    /\ Wizard /\ step = "submit"
    /\ sub[i].pc = "blocked"
    /\ sub[i].geo = "position"
    /\ FromCenter(sub[i].coord) > 1200 * 100

\* C6: an invocation of submitIssue whose position could not be read (denied,
\* unavailable, timed out) or whose check-campus lookup failed (network error,
\* no JSON, an error status, a body without insideCampus) is blocked: the
\* campus check did not return inside and nothing is written.
C6_GateFailsClosed ==
  \A i \in Slots :
    (sub[i].geo \in GeoErrors
       \/ sub[i].lookup \in {"network_error", "not_json", "error_json", "error_status"})
      => /\ sub[i].pc = "blocked"
         /\ sub[i].gate # "inside"
         /\ sub[i].eff = {}

C6_Witness ==
  \E i \in Slots :
    /\ sub[i].pc = "blocked"
    /\ sub[i].geo \in GeoErrors \/ sub[i].lookup \in {"network_error", "error_status"}
    /\ storage = {} /\ issues = <<>>

C8_FailedAttemptWritesNothing ==
  \A i \in Slots : sub[i].pc \in {"failed", "blocked"} => sub[i].eff = {}

\* C9: once the row is inserted, a notification that fails (an error or a
\* rejection) still ends the submit at step 'success' and the row stays.
C9_NotificationBestEffort ==
  [][\A i \in Slots :
       ("notify" \in sub'[i].fails /\ "notify" \notin sub[i].fails)
         => /\ "insert" \in sub[i].eff
            /\ sub'[i].pc = "done"
            /\ step' = "success"
            /\ issues' = issues
            /\ Len(issues) > 0]_vars

C9_Witness ==
  \E i \in Slots :
    /\ "notify" \in sub[i].fails
    /\ "insert" \in sub[i].eff
    /\ sub[i].pc = "done"
    /\ step = "success"
    /\ Len(issues) > 0

\* C10: when validate-image cannot reach the AI gateway (the call fails, the
\* status is not OK, LOVABLE_API_KEY is not set), the workflow is back at step
\* 'upload' and no verdict counts as valid; the handler answers 200 with
\* isValid true instead.
C10_OracleDownBackToUpload ==
  oracleOutcome \in {"not_configured", "fetch_throws", "not_ok", "bad_json"}
    => step = "upload" /\ ~validSeen

\* the outcomes of a run in which the handler of validate-image answered
HandlerAnswered == {"answered", "not_configured", "fetch_throws", "not_ok", "bad_json"}

\* C11: whatever the gateway returns, the body the handler of validate-image
\* answers with is a verdict: isValid is a boolean, reason and confidence are
\* there.  A JSON object without these members is passed on as it is.
C11_HandlerAnswersVerdict ==
  oracleOutcome \in HandlerAnswered =>
    /\ validationResult.isValid \in {"true", "false"}
    /\ validationResult.reason # "undefined"
    /\ validationResult.confidence \in 0..100

\* C12: whenever submitIssue of the wizard inserts a row, the image, the
\* category, the subcategory, the building, the floor, the room and the
\* urgency of the draft are all there and not empty.  Enter in the room field
\* lets a draft with no building and no floor through.
C12_InsertedDraftComplete ==
  [][(Wizard /\ Len(issues') > Len(issues))
       => /\ imageFile # Null
          /\ category # ""
          /\ selectedSubcategory # ""
          /\ buildingName # <<>>
          /\ floorNumber # <<>>
          /\ roomArea # <<>>
          /\ selectedUrgency # ""]_vars

\* the last row of table issues
LastIssue == issues[Len(issues)]

\* C13: a wizard at step 'success' has inserted a row for the draft on the
\* page: the row carries the student, the category (as the database names
\* it), the location "<building>, Floor <floor>, <room>" made of the three
\* parts, the severity of the urgency (needs_attention gives medium) and the
\* status 'submitted'.
C13_HappyPathRecord ==
  (Wizard /\ step = "success") =>
    /\ Len(issues) > 0
    /\ LastIssue.student_id = user
    /\ LastIssue.category = categoryToDbEnum[category]
    /\ LastIssue.location =
         buildingName \o <<",", " ", "F", "l", "o", "o", "r", " ">> \o floorNumber
                      \o <<",", " ">> \o roomArea
    /\ LastIssue.severity = urgencyOptions[selectedUrgency]
    /\ LastIssue.status = "submitted"

C13_Witness ==
  /\ Wizard /\ step = "success"
  /\ category = "water" /\ selectedSubcategory = "Leak"
  /\ selectedUrgency = "needs_attention"
  /\ Trim(buildingName) # <<>> /\ Trim(floorNumber) # <<>> /\ Trim(roomArea) # <<>>
  /\ Len(issues) = 1
  /\ LastIssue.category = "water"
  /\ LastIssue.severity = "medium"
  /\ LastIssue.status = "submitted"
  /\ points = 5

\* the rows of table issues
Rows == {issues[n] : n \in 1..Len(issues)}

\* the urgency a row of the wizard was inserted with, as its description
\* carries it
UrgencyOf(row) == row.description[4]

\* C14: every row the wizard inserted has the severity of its urgency:
\* emergency gives high, needs_attention gives medium, can_wait gives low, as
\* in urgencyOptions and, read backwards, in severityLabels of the PDF export;
\* no row comes from any other urgency value.
C14_SeverityOfUrgency ==
  Wizard =>
    \A row \in Rows :
      /\ UrgencyOf(row) \in {"emergency", "needs_attention", "can_wait"}
      /\ UrgencyOf(row) = "emergency" => row.severity = "high"
      /\ UrgencyOf(row) = "needs_attention" => row.severity = "medium"
      /\ UrgencyOf(row) = "can_wait" => row.severity = "low"
      /\ row.severity = urgencyOptions[UrgencyOf(row)]
      /\ severityLabels[row.severity] = urgencyLabels[UrgencyOf(row)]

C14_Witness ==
  /\ Wizard
  /\ \E row \in Rows : UrgencyOf(row) = "can_wait" /\ row.severity = "low"
  /\ \E row \in Rows : UrgencyOf(row) = "emergency" /\ row.severity = "high"

\* C15: every submit that ends at step 'success' (in the wizard, which tells
\* the user that 5 points were earned, and in src/pages/ReportIssue.tsx) has
\* added 5 to the points of the student.  The wizard does not read the error
\* of increment_points, and src/pages/ReportIssue.tsx never calls it.
C15_SuccessAwardsPoints ==
  variant # "part_004" =>
    \A i \in Slots :
      sub[i].pc = "done" => ("points" \in sub[i].eff /\ points >= 5)

\* ------------------------------------------- increment_points, concurrently
\* Sessions of students and of maintenance staff call increment_points for
\* one profile at the same time.  The function is one UPDATE statement: it
\* locks the row, reads points, writes points + points_to_add and commits; a
\* second UPDATE of the row waits for the lock.
PointsInit ==
  /\ Init
  /\ variant = "part_003"
  /\ scenario = "faults"

\* a student's submitIssue sends rpc('increment_points', 5)
rpcFromStudent(c) ==
  /\ rpc[c].st = "none"
  /\ rpc' = [rpc EXCEPT ![c] = [st |-> "sent", delta |-> 5, seen |-> 0]]
  /\ UNCHANGED <<variant, scenario, mounted, otherVars, uiVars, asyncVars, backendVars, ghostVars>>

\* handleUpdateIssue of the maintenance page sends rpc('increment_points', 50)
\* for an issue it has set to resolved
rpcFromMaintenance(c) ==
  /\ rpc[c].st = "none"
  /\ rpc' = [rpc EXCEPT ![c] = [st |-> "sent", delta |-> 50, seen |-> 0]]
  /\ UNCHANGED <<variant, scenario, mounted, otherVars, uiVars, asyncVars, backendVars, ghostVars>>

\* the row of the profile is locked by the UPDATE of another call
RowLocked_never(c) == FALSE
RowLocked(c) == \E d \in Calls \ {c} : rpc[d].st = "locked"

\* the UPDATE of a call locks the row and reads points
updateReads(c) ==
  /\ rpc[c].st = "sent"
  /\ ~RowLocked(c)
  /\ rpc' = [rpc EXCEPT ![c].st = "locked", ![c].seen = points]
  /\ UNCHANGED <<variant, scenario, mounted, otherVars, uiVars, asyncVars, backendVars, ghostVars>>

\* SET points = COALESCE(points, 0) + points_to_add, and the commit; the
\* column defaults to 0 and is never NULL here
updateCommits(c) ==
  /\ rpc[c].st = "locked"
  /\ points' = rpc[c].seen + rpc[c].delta
  /\ rpc' = [rpc EXCEPT ![c].st = "done"]
  /\ UNCHANGED <<variant, scenario, mounted, otherVars, uiVars, asyncVars, storage, issues,
                 notifications, ghostVars>>

PointsNext ==
  \/ \E c \in Calls : rpcFromStudent(c)
  \/ \E c \in Calls : rpcFromMaintenance(c)
  \/ \E c \in Calls : updateReads(c)
  \/ \E c \in Calls : updateCommits(c)

PointsSpec == PointsInit /\ [][PointsNext]_vars

\* the sum of points_to_add over the calls that have committed
RECURSIVE Committed(_)
Committed(n) ==
  IF n = 0 THEN 0
  ELSE Committed(n - 1) + (IF rpc[n].st = "done" THEN rpc[n].delta ELSE 0)

\* C16: for every interleaving of concurrent calls of increment_points on one
\* profile, the points are the initial points plus the sum of points_to_add
\* of the calls that have committed: no update is lost.
C16_NoLostUpdate == points = Committed(MaxCalls)

C16_Witness ==
  /\ \A c \in Calls : rpc[c].st = "done"
  /\ \E c, d \in Calls : rpc[c].delta = 5 /\ rpc[d].delta = 50
  /\ points = Committed(MaxCalls)
  /\ points >= 60

\* C17: once the user has left the page nothing more is written: no image is
\* uploaded, no row is inserted, no points are awarded.  Nothing cancels what
\* submitIssue awaits, so it runs to its end after the page is gone.
C17_NothingAfterLeaving ==
  [][~mounted => UNCHANGED <<storage, issues, points>>]_vars

\* ------------------------------------------------------------------ waiting
\* What the code schedules by itself: getCurrentPosition of the wizard is
\* called with timeout: 10000, so its callback comes.  functions.invoke of
\* validateImage, getCurrentPosition of the check-campus page (no options) and
\* its fetch have no timeout: nothing makes their answers come.
FairSpec ==
  /\ Spec
  /\ \A i \in Slots : WF_vars(\E geo \in GeoResults(TRUE) : p3_checkCampusLocation(i, geo))

\* C18: every wait for validate-image and every wait of a campus check (the
\* position read, the check-campus lookup) ends, whether or not the other
\* side answers.
C18_NoWaitForever ==
  /\ (step = "validating") ~> (step # "validating")
  /\ \A i \in Slots : (sub[i].pc \in {"geo", "fetch"}) ~> (sub[i].pc \notin {"geo", "fetch"})

\* C19: the campus check is boundary inclusive and the same on both sides: a
\* position is found inside exactly when its distance from the center is at
\* most 1000 m, by checkCampusLocation of the wizard and by the check-campus
\* handler alike, and the two agree on every position.
C19_BoundaryInclusive ==
  \A i \in Slots :
    (/\ sub[i].geo = "position"
     /\ sub[i].gate # "none"
     /\ Wizard \/ sub[i].lookup = "handler")
      => /\ (sub[i].gate = "inside") <=> (FromCenter(sub[i].coord) <= 1000 * 100)
         /\ checkCampusLocation([ok |-> TRUE, coords |-> sub[i].coord, code |-> "none"])
              <=> (checkCampusHandler("POST", sub[i].coord.latitude,
                                      sub[i].coord.longitude).insideCampus = "true")

C19_Witness ==
  \E i, j \in Slots :
    /\ sub[i].geo = "position" /\ sub[j].geo = "position"
    /\ FromCenter(sub[i].coord) = 1000 * 100
    /\ sub[i].gate = "inside"
    /\ FromCenter(sub[j].coord) = 1000 * 100 + 1
    /\ sub[j].gate = "outside"

\* ----------------------------------------------------------- the PDF export
\* location.split(',')
HasComma(s) == \E i \in 1..Len(s) : s[i] = ","
FirstComma(s) == CHOOSE i \in 1..Len(s) : s[i] = "," /\ \A j \in 1..(i - 1) : s[j] # ","
RECURSIVE SplitComma(_)
SplitComma(s) ==
  IF HasComma(s)
    THEN <<SubSeq(s, 1, FirstComma(s) - 1)>>
           \o SplitComma(SubSeq(s, FirstComma(s) + 1, Len(s)))
    ELSE <<s>>

\* parseLocation of generateIssuePDF.ts: the first three parts, trimmed
parseLocation(loc) ==
  IF loc = <<>>
    THEN [building |-> <<>>, floor |-> <<>>, room |-> <<>>]
    ELSE LET parts == SplitComma(loc)
             part(k) == IF k <= Len(parts) THEN Trim(parts[k]) ELSE <<>>
         IN [building |-> part(1), floor |-> part(2), room |-> part(3)]

\* C20: the location the wizard stores parses back, with parseLocation of the
\* PDF export, into the building, the floor and the room the user typed (up
\* to the white space around them), whenever none of the three is blank.
\* The floor comes back with the word "Floor" in front of it.
C20_LocationRoundTrip ==
  (/\ Wizard /\ step = "success"
   /\ Trim(buildingName) # <<>> /\ Trim(floorNumber) # <<>> /\ Trim(roomArea) # <<>>)
    => parseLocation(LastIssue.location) =
         [building |-> Trim(buildingName), floor |-> Trim(floorNumber),
          room |-> Trim(roomArea)]

\* ----------------------------------------------------------------- C21
\* the wizard as it is after construction
EmptyForm ==
  [step |-> "upload", imageFile |-> Null, imagePreview |-> Null, category |-> "",
   selectedSubcategory |-> "", buildingName |-> <<>>, floorNumber |-> <<>>,
   roomArea |-> <<>>, selectedUrgency |-> "", validationResult |-> Null,
   currentLocationField |-> "building"]

\* C21: resetForm of the invalid step leaves the wizard in the upload step with
\* image, preview, category, subcategory, location fields, urgency and verdict
\* cleared, and resetForm applied again to that state, or twice to any state,
\* gives the same state as applying it once.
C21_ResetClearsAndIsIdempotent ==
  [][/\ (Wizard /\ step = "invalid" /\ step' = "upload") =>
          /\ FormState' = EmptyForm
          /\ ResetFields(FormState') = FormState'
     /\ Wizard => ResetFields(ResetFields(FormState)) = ResetFields(FormState)]_vars

\* after a reset from the invalid step a new report went through to success
C21_Witness ==
  /\ Wizard /\ resetFromInvalid
  /\ step = "success" /\ passInserted = 1
  /\ Len(issues) = 1 /\ oracleCalls = 2

\* ----------------------------------------------------------------- C22
\* public.has_role
has_role(_user_id, _role) ==
  \E r \in user_roles : r.user_id = _user_id /\ r.role = _role

\* policy "Students can view their own issues", FOR SELECT USING
IssuesSelectUsing(uid, row) == uid = row.student_id \/ has_role(uid, "maintenance")

\* policy "Students can create issues", FOR INSERT WITH CHECK
IssuesInsertCheck_anyStudent(uid, row) == has_role(uid, "student")
IssuesInsertCheck(uid, row) == uid = row.student_id /\ has_role(uid, "student")

\* policy "Maintenance can update any issue", FOR UPDATE USING
IssuesUpdateUsing(uid, row) == has_role(uid, "maintenance")

RlsInit ==
  /\ Init
  /\ variant = "part_003"
  /\ scenario = "faults"

\* INSERT INTO issues (student_id) by the authenticated user uid
rlsInsert(uid, sid) ==
  /\ Cardinality(rlsIssues) < MaxRows
  /\ LET row == [id |-> Cardinality(rlsIssues) + 1, student_id |-> sid,
                 status |-> "submitted"]
         ok == IssuesInsertCheck(uid, row)
     IN /\ rlsIssues' = IF ok THEN rlsIssues \cup {row} ELSE rlsIssues
        /\ rlsOp' = [NoStatement EXCEPT !.kind = "insert", !.uid = uid, !.id = row.id,
                                        !.student_id = sid, !.ok = ok]
  /\ UNCHANGED <<variant, scenario, mounted, rpc, staffVars, httpVars, uiVars, asyncVars,
                 backendVars, ghostVars>>

\* SELECT * FROM issues by uid
rlsSelect(uid) ==
  /\ rlsOp' = [NoStatement EXCEPT !.kind = "select", !.uid = uid, !.ok = TRUE,
                 !.rows = {r \in rlsIssues : IssuesSelectUsing(uid, r)}]
  /\ UNCHANGED <<variant, scenario, mounted, rpc, rlsIssues, staffVars, httpVars, uiVars,
                 asyncVars, backendVars, ghostVars>>

\* UPDATE issues SET status = st WHERE id = id by uid: the rows it may read and
\* the UPDATE policy admits
rlsUpdate(uid, id, st) ==
  /\ LET hit == {r \in rlsIssues : /\ r.id = id
                                   /\ IssuesSelectUsing(uid, r)
                                   /\ IssuesUpdateUsing(uid, r)}
     IN /\ rlsIssues' = (rlsIssues \ hit) \cup {[r EXCEPT !.status = st] : r \in hit}
        /\ rlsOp' = [NoStatement EXCEPT !.kind = "update", !.uid = uid, !.id = id,
                                        !.status = st, !.ok = (hit # {})]
  /\ UNCHANGED <<variant, scenario, mounted, rpc, staffVars, httpVars, uiVars, asyncVars,
                 backendVars, ghostVars>>

RlsNext ==
  \/ \E uid, sid \in Users : rlsInsert(uid, sid)
  \/ \E uid \in Users : rlsSelect(uid)
  \/ \E uid \in Users, id \in 1..MaxRows, st \in issue_status : rlsUpdate(uid, id, st)

RlsSpec == RlsInit /\ [][RlsNext]_vars

StudentOnly(u) == has_role(u, "student") /\ ~has_role(u, "maintenance")

\* C22: a user holding only the student role creates an issue exactly when its
\* student_id is their own id, reads exactly their own issues and changes no
\* row by an update; a user holding the maintenance role reads every issue and
\* updates any existing one.
C22_RowLevelAccess ==
  [][LET o == rlsOp'
     IN /\ (o.kind = "insert" /\ StudentOnly(o.uid)) =>
             /\ o.ok <=> o.student_id = o.uid
             /\ \A r \in rlsIssues' \ rlsIssues : r.student_id = o.uid
        /\ (o.kind = "select" /\ StudentOnly(o.uid)) =>
             o.rows = {r \in rlsIssues' : r.student_id = o.uid}
        /\ (o.kind = "update" /\ StudentOnly(o.uid)) =>
             ~o.ok /\ rlsIssues' = rlsIssues
        /\ (o.kind = "select" /\ has_role(o.uid, "maintenance")) =>
             o.rows = rlsIssues'
        /\ (o.kind = "update" /\ has_role(o.uid, "maintenance")
              /\ \E r \in rlsIssues : r.id = o.id) =>
             /\ o.ok
             /\ \E r \in rlsIssues' : r.id = o.id /\ r.status = o.status]_vars

\* a student was refused an update of their own issue, which maintenance had
\* set to in_progress
C22_Witness ==
  /\ rlsOp.kind = "update" /\ StudentOnly(rlsOp.uid) /\ ~rlsOp.ok
  /\ \E r \in rlsIssues : r.id = rlsOp.id /\ r.student_id = rlsOp.uid
                          /\ r.status = "in_progress"
  /\ Cardinality(rlsIssues) = MaxRows

\* ----------------------------------------------------------------- C23
MaxWrapped == 6       \* tokens of a completion sent to the handler directly

\* completions of the gateway, long enough for two objects
WrappedContents == UNION {[1..n -> Tokens] : n \in 0..MaxWrapped}

HandlerRuns ==
  {[key |-> TRUE, gw |-> "ok", content |-> c] : c \in WrappedContents}
  \cup {[key |-> TRUE, gw |-> g, content |-> <<>>] : g \in GatewayOutcomes \ {"ok"}}
  \cup {[key |-> FALSE, gw |-> "ok", content |-> <<>>]}

\* bodies of a POST to /api/check-campus: each component is there or not, a
\* coordinate of the device or 0
CampusBodies ==
  [hasLatitude : BOOLEAN, latitude : {p.latitude : p \in Positions},
   hasLongitude : BOOLEAN, longitude : {CAMPUS_CENTER.longitude, 0}]

\* a component of req.body the handler destructures: a missing one is
\* undefined, falsy as 0 is
BodyLatitude(body) == IF body.hasLatitude THEN body.latitude ELSE 0
BodyLongitude(body) == IF body.hasLongitude THEN body.longitude ELSE 0

HandlerInit ==
  /\ Init
  /\ variant = "part_003"
  /\ scenario = "oracle"

\* a client posts to validate-image
postValidateImage(imageBase64, run) ==
  /\ httpReq.fn = "none"
  /\ httpReq' = [NoRequest EXCEPT !.fn = "validate-image", !.method = "POST",
                                  !.imageBase64 = imageBase64, !.run = run]
  /\ UNCHANGED <<variant, scenario, mounted, rpc, rlsVars, staffVars, httpResp,
                 uiVars, asyncVars, backendVars, ghostVars>>

\* the handler of validate-image answers
validateImageAnswers ==
  /\ httpReq.fn = "validate-image" /\ httpResp.status = 0
  /\ LET resp == validateImageHandler(httpReq.imageBase64, httpReq.run.key,
                                      httpReq.run.gw, httpReq.run.content)
     IN httpResp' = [NoResponse EXCEPT !.status = resp.status, !.body = resp.body]
  /\ UNCHANGED <<variant, scenario, mounted, rpc, rlsVars, staffVars, httpReq,
                 uiVars, asyncVars, backendVars, ghostVars>>

\* a client sends a request to /api/check-campus
postCheckCampus(method, body) ==
  /\ httpReq.fn = "none"
  /\ httpReq' = [NoRequest EXCEPT !.fn = "check-campus", !.method = method,
                                  !.body = body]
  /\ UNCHANGED <<variant, scenario, mounted, rpc, rlsVars, staffVars, httpResp,
                 uiVars, asyncVars, backendVars, ghostVars>>

\* the handler of /api/check-campus answers
checkCampusAnswers ==
  /\ httpReq.fn = "check-campus" /\ httpResp.status = 0
  /\ LET resp == checkCampusHandler(httpReq.method, BodyLatitude(httpReq.body),
                                    BodyLongitude(httpReq.body))
     IN httpResp' = [NoResponse EXCEPT !.status = resp.status,
                                       !.insideCampus = resp.insideCampus]
  /\ UNCHANGED <<variant, scenario, mounted, rpc, rlsVars, staffVars, httpReq,
                 uiVars, asyncVars, backendVars, ghostVars>>

HandlerNext ==
  \/ /\ httpReq.fn = "none"
     /\ \E img \in Files \cup {Null}, run \in HandlerRuns : postValidateImage(img, run)
  \/ validateImageAnswers
  \/ /\ httpReq.fn = "none"
     /\ \E m \in {"POST", "GET"}, body \in CampusBodies : postCheckCampus(m, body)
  \/ checkCampusAnswers

HandlerSpec == HandlerInit /\ [][HandlerNext]_vars

\* the well-formed JSON objects of a completion, and the first of them
ObjectAt(c, i) == \E j \in i..Len(c) : Parses(SubSeq(c, i, j))
HasObject(c) == \E i \in 1..Len(c) : ObjectAt(c, i)
FirstObject(c) ==
  LET i == CHOOSE i \in 1..Len(c) : ObjectAt(c, i) /\ \A k \in 1..(i - 1) : ~ObjectAt(c, k)
      j == CHOOSE j \in i..Len(c) : Parses(SubSeq(c, i, j))
  IN SubSeq(c, i, j)

\* C23: when the completion of the gateway holds a well-formed JSON object,
\* with any text before and after it, the handler of validate-image answers
\* with that object, the first one of the completion.  The pattern takes the
\* text from the first "{" to the last "}": a brace or a second object after
\* the first one makes JSON.parse throw, and the fallback verdict is returned.
C23_FirstObjectExtracted ==
  (/\ httpReq.fn = "validate-image" /\ httpResp.status # 0
   /\ httpReq.imageBase64 # Null
   /\ httpReq.run.key /\ httpReq.run.gw = "ok"
   /\ HasObject(httpReq.run.content))
    => /\ httpResp.status = 200
       /\ httpResp.body = JSONparse(FirstObject(httpReq.run.content))

\* ----------------------------------------------------------------- C28
\* C28: the handler of /api/check-campus answers a POST that carries both a
\* latitude and a longitude with 200 and a boolean insideCampus, and answers
\* 400 only when a component is missing.  The test !latitude || !longitude
\* also refuses a component that is 0.
C28_ValidCoordinateAnswered ==
  (httpReq.fn = "check-campus" /\ httpReq.method = "POST" /\ httpResp.status # 0) =>
    /\ (httpReq.body.hasLatitude /\ httpReq.body.hasLongitude) =>
         httpResp.status = 200 /\ httpResp.insideCampus \in {"true", "false"}
    /\ httpResp.status = 400 =>
         ~httpReq.body.hasLatitude \/ ~httpReq.body.hasLongitude

\* ----------------------------------------------------------------- C24
\* C24: whenever submitIssue of the wizard uploads imageFile, that file is the
\* one whose data URL was sent to validate-image and came back with a truthy
\* isValid.  A second file chosen while the preview still shows the first one
\* is uploaded with the verdict of the first.
C24_UploadedIsValidated ==
  [][(Wizard /\ storage' # storage) => imageFile = validatedImage]_vars

\* ------------------------------------------------ maintenance work page
\* (part_006)
MaintInit ==
  /\ ReportInit
  /\ variant = "part_003"
  /\ scenario = "faults"
  /\ tickets \in {TableRows(1), TableRows(2)}

\* the sessions that open the page: two on one issue, one on two issues
PickSessions == IF Len(tickets) = 1 THEN Sessions ELSE {1}

\* the page is loaded, with or without ?issue=: fetchIssues of the effect
fetchIssues(s, issueId) ==
  /\ sess[s].pc = "idle"
  /\ sess[s].issues = <<>>
  /\ LET issueData == tickets
     IN sess' = [sess EXCEPT ![s] =
                   IF issueId \in IssueIds
                     THEN [NewSession EXCEPT !.issues = issueData,
                                             !.selectedIssue = issueData[issueId],
                                             !.newStatus = issueData[issueId].status,
                                             !.previousStatus = issueData[issueId].status]
                     ELSE [NewSession EXCEPT !.issues = issueData]]
  /\ UNCHANGED <<variant, scenario, mounted, rpc, rlsVars, httpVars, tickets, awards,
                 nUpdates, uiVars, asyncVars, backendVars, ghostVars>>

\* handleSelectIssue: a click on a row of activeIssues
handleSelectIssue(s, id) ==
  /\ id \in DOMAIN sess[s].issues
  /\ sess[s].issues[id].status # "resolved"
  /\ sess' = [sess EXCEPT ![s].selectedIssue = sess[s].issues[id],
                          ![s].newStatus = sess[s].issues[id].status,
                          ![s].previousStatus = sess[s].issues[id].status,
                          ![s].resolvedImageFile = Null]
  /\ UNCHANGED <<variant, scenario, mounted, rpc, rlsVars, httpVars, tickets, awards,
                 nUpdates, uiVars, asyncVars, backendVars, ghostVars>>

\* the Status select of the update panel
setNewStatus(s, v) ==
  /\ sess[s].selectedIssue.id # 0
  /\ v # sess[s].newStatus
  /\ sess' = [sess EXCEPT ![s].newStatus = v]
  /\ UNCHANGED <<variant, scenario, mounted, rpc, rlsVars, httpVars, tickets, awards,
                 nUpdates, uiVars, asyncVars, backendVars, ghostVars>>

\* handleResolvedImageSelect: the input is rendered while the panel asks for a
\* proof photo
handleResolvedImageSelect(s) ==
  /\ sess[s].selectedIssue.id # 0
  /\ sess[s].newStatus = "resolved" /\ sess[s].previousStatus # "resolved"
  /\ sess[s].resolvedImageFile = Null
  /\ sess' = [sess EXCEPT ![s].resolvedImageFile = "proof"]
  /\ UNCHANGED <<variant, scenario, mounted, rpc, rlsVars, httpVars, tickets, awards,
                 nUpdates, uiVars, asyncVars, backendVars, ghostVars>>

\* the early return of handleUpdateIssue that asks for a proof photo
ProofMissing(d) ==
  d.newStatus = "resolved" /\ d.previousStatus # "resolved" /\ d.resolvedImageFile = Null

\* if (newStatus === 'resolved' && previousStatus !== 'resolved'): the award
AwardDue(d) == d.newStatus = "resolved" /\ d.previousStatus # "resolved"

\* the Update Issue button, up to the first await of handleUpdateIssue
handleUpdateIssue(s) ==
  /\ sess[s].pc = "idle"
  /\ ~sess[s].updating
  /\ sess[s].selectedIssue.id # 0 /\ sess[s].newStatus # ""
  /\ ~ProofMissing(sess[s])
  /\ nUpdates < MaxUpdates
  /\ nUpdates' = nUpdates + 1
  /\ sess' = [sess EXCEPT
       ![s].updating = TRUE,
       ![s].pc = IF sess[s].resolvedImageFile # Null /\ sess[s].newStatus = "resolved"
                   THEN "upload" ELSE "update",
       ![s].call = [selectedIssue |-> sess[s].selectedIssue,
                    newStatus |-> sess[s].newStatus,
                    previousStatus |-> sess[s].previousStatus,
                    resolvedImageFile |-> sess[s].resolvedImageFile,
                    resolvedImageUrl |-> sess[s].selectedIssue.resolved_image_url]]
  /\ UNCHANGED <<variant, scenario, mounted, rpc, rlsVars, httpVars, tickets, awards,
                 uiVars, asyncVars, backendVars, ghostVars>>

\* catch and finally of handleUpdateIssue
UpdateFails(s) == [sess EXCEPT ![s].pc = "idle", ![s].updating = FALSE]

\* "Update local state" and finally of handleUpdateIssue
UpdateDone(s) ==
  LET c == sess[s].call
      id == c.selectedIssue.id
  IN [sess EXCEPT
        ![s].pc = "idle",
        ![s].updating = FALSE,
        ![s].issues = [i \in DOMAIN sess[s].issues |->
                         IF i = id
                           THEN [sess[s].issues[i] EXCEPT
                                   !.status = c.newStatus,
                                   !.resolved_image_url = c.resolvedImageUrl]
                           ELSE sess[s].issues[i]],
        ![s].selectedIssue = IF sess[s].selectedIssue.id # 0
                               THEN [sess[s].selectedIssue EXCEPT
                                       !.status = c.newStatus,
                                       !.resolved_image_url = c.resolvedImageUrl]
                               ELSE sess[s].selectedIssue,
        ![s].previousStatus = c.newStatus,
        ![s].resolvedImageFile = Null]

\* the upload of the proof photo settles; uploadError is thrown
uploadProof(s, out) ==
  /\ sess[s].pc = "upload"
  /\ out \in Outcomes
  /\ sess' = IF out = "ok"
               THEN [sess EXCEPT ![s].pc = "update",
                                 ![s].call.resolvedImageUrl =
                                    ProofUrl(sess[s].call.selectedIssue.id)]
               ELSE UpdateFails(s)
  /\ UNCHANGED <<variant, scenario, mounted, rpc, rlsVars, httpVars, tickets, awards,
                 nUpdates, uiVars, asyncVars, backendVars, ghostVars>>

\* update(updates).eq('id', selectedIssue.id) settles; error is thrown
updateIssue(s, out) ==
  /\ sess[s].pc = "update"
  /\ out \in Outcomes
  /\ LET c == sess[s].call
         id == c.selectedIssue.id
     IN IF out = "ok"
          THEN /\ tickets' = [tickets EXCEPT
                                ![id].status = c.newStatus,
                                ![id].resolved_image_url =
                                   IF c.resolvedImageUrl # NoUrl THEN c.resolvedImageUrl ELSE @]
               /\ sess' = IF AwardDue(c) THEN [sess EXCEPT ![s].pc = "rpc"]
                                         ELSE UpdateDone(s)
          ELSE /\ sess' = UpdateFails(s)
               /\ UNCHANGED tickets
  /\ UNCHANGED <<variant, scenario, mounted, rpc, rlsVars, httpVars, awards, nUpdates,
                 uiVars, asyncVars, backendVars, ghostVars>>

\* rpc('increment_points', 50) settles; its { error } is not read
awardPoints(s, out) ==
  /\ sess[s].pc = "rpc"
  /\ out \in Outcomes
  /\ awards' = IF out = "ok"
                 THEN [awards EXCEPT ![sess[s].call.selectedIssue.id] = @ + 1]
                 ELSE awards
  /\ sess' = IF out = "throws" THEN UpdateFails(s) ELSE UpdateDone(s)
  /\ UNCHANGED <<variant, scenario, mounted, rpc, rlsVars, httpVars, tickets, nUpdates,
                 uiVars, asyncVars, backendVars, ghostVars>>

MaintNext ==
  \/ \E s \in PickSessions, issueId \in IssueIds \cup {0} : fetchIssues(s, issueId)
  \/ \E s \in PickSessions, id \in IssueIds : handleSelectIssue(s, id)
  \/ \E s \in PickSessions, v \in issue_status : setNewStatus(s, v)
  \/ \E s \in PickSessions : handleResolvedImageSelect(s)
  \/ \E s \in PickSessions : handleUpdateIssue(s)
  \/ \E s \in PickSessions, out \in Outcomes : uploadProof(s, out)
  \/ \E s \in PickSessions, out \in Outcomes : updateIssue(s, out)
  \/ \E s \in PickSessions, out \in Outcomes : awardPoints(s, out)

MaintSpec == MaintInit /\ [][MaintNext]_vars

\* ----------------------------------------------------------------- C25
\* C25: for each issue, increment_points(student_id, 50) runs at most once,
\* whatever the sequence of status updates and however two maintenance
\* sessions interleave.  The award is decided from the page's previousStatus
\* alone: an issue set back from resolved and resolved again is awarded again,
\* and so is one resolved by two sessions that both loaded it unresolved.
C25_AwardAtMostOnce == \A i \in AllIssueIds : awards[i] <= 1

\* ----------------------------------------------------------------- C29
\* C29: every issue whose stored status is 'resolved' has a stored
\* resolved_image_url that is a proof photo of that issue, uploaded by the
\* update that resolved it or by an earlier update of it.  An issue selected
\* while the update of another one is in flight takes over that one's
\* previousStatus and URL, and is then resolved with the other issue's photo.
C29_ResolvedHasProof ==
  \A i \in IssueIds :
    tickets[i].status = "resolved" => tickets[i].resolved_image_url = ProofUrl(i)

\* ----------------------------------------------------------------- C26
\* C26: one pass through the wizard inserts at most one row: when the pass is
\* in 'success' it has inserted exactly one, and an invocation of submitIssue
\* that ended in the catch ('Failed to submit issue') has inserted none, so
\* pressing Submit again cannot insert the draft a second time.  The award of
\* points is awaited inside the same try after the insert: when it rejects,
\* the submit is reported as failed with the row already stored.
C26_OneRecordPerPass ==
  Wizard =>
    /\ passInserted <= 1
    /\ step = "success" => passInserted = 1
    /\ \A i \in Slots : sub[i].pc = "failed" => "insert" \notin sub[i].eff

\* ----------------------------------------------------------------- C27
\* C27: the image_url of every row of issues is the path of an object that was
\* uploaded to the bucket: when the upload resolves with an error, the submit
\* fails and inserts nothing.  The wizard awaits the upload without reading
\* its result and goes on to the insert.
C27_InsertedImageUploaded ==
  \A n \in 1..Len(issues) : \E o \in storage : o.path = issues[n].image_url

\* ----------------------------------------------------------------- C30
\* C30: in the wizard the selected subcategory is empty or one of the
\* subcategories of the selected category, and every row inserted by it names
\* a category together with one of that category's subcategories.
C30_SubcategoryOfCategory ==
  Wizard =>
    /\ selectedSubcategory = "" \/
         (category # "" /\ selectedSubcategory \in categorySubcategories[category])
    /\ \A n \in 1..Len(issues) :
         \E c \in WizardCategories :
           /\ issues[n].description[1] = categoryLabels[c]
           /\ issues[n].description[2] \in categorySubcategories[c]
           /\ issues[n].category = categoryToDbEnum[c]

\* with every category on offer, a row of category Air and subcategory Odour
\* was inserted
C30_Witness ==
  /\ Wizard /\ scenario = "categories"
  /\ Len(issues) = 1
  /\ LastIssue.description[1] = "Air" /\ LastIssue.description[2] = "Odour"
====
